---- MODULE Spec2Model ----
(***************************************************************************)
(* State-machine model of neo_mpc_planner::NeoMpcPlanner                   *)
(* (src/src/neo_mpc_planner2-humble/src/NeoMpcPlanner.cpp).                *)
(*                                                                         *)
(* Two threads are modelled:                                               *)
(*   - the control thread, which calls setPlan and computeVelocityCommands *)
(*     (one call at a time, as the controller server does);                *)
(*   - the parameter thread, which calls dynamicParametersCallback.        *)
(* They share mutex_ and the three lookahead parameters.                   *)
(*                                                                         *)
(* Units: positions are integer grid cells, distances are compared by      *)
(* their squares, angles are integer milliradians (pi = 3142).             *)
(***************************************************************************)
EXTENDS Integers, Sequences, FiniteSets, TLC

(***************************************************************************)
(* Bounds of the model.                                                    *)
(***************************************************************************)
\* longest plan handed to setPlan
MaxPlanLen == 3
\* longest parameter batch handed to dynamicParametersCallback
MaxBatchLen == 2

(***************************************************************************)
(* Environment of the planner (collaborators outside the source file).     *)
(***************************************************************************)
\* max(size_x, size_y) * resolution / 2 of the local costmap, in cells
MaxTransformDist == 3
\* costmap cost values the footprint query can return
\* (0 free, 200 and 201 around the threshold, 255 LETHAL_OBSTACLE)
Costs == {0, 200, 201, 255}
\* frame of the stored plan, and the robot's base frame
PlanFrame == "map"
BaseFrame == "base_link"
\* translation of the odom frame's origin in the map frame (tf tree)
OdomInMapX == 1

Pi == 3142
HalfPi == 1571

\* poses a global plan is made of: position and yaw
PlanPoses ==
  { [x |-> 0, y |-> 0, yaw |-> 0],
    [x |-> 2, y |-> 0, yaw |-> 1200],
    [x |-> 4, y |-> 0, yaw |-> 1000] }

RECURSIVE SeqsUpTo(_, _)
SeqsUpTo(S, n) ==
  IF n = 0 THEN { <<>> }
  ELSE LET shorter == SeqsUpTo(S, n - 1)
       IN  shorter \cup { Append(s, e) : s \in shorter, e \in S }

\* plans the controller server hands to setPlan: it rejects empty paths,
\* and a planner's path moves on from one pose to the next
Plans ==
  { p \in SeqsUpTo(PlanPoses, MaxPlanLen) :
      /\ p # <<>>
      /\ \A i \in 1 .. Len(p) - 1 : p[i] # p[i + 1] }

\* robot poses handed to computeVelocityCommands, stamped with their frame
Positions ==
  { [frame |-> "map",  x |-> 0, y |-> 0, yaw |-> 0],
    [frame |-> "odom", x |-> 0, y |-> 0, yaw |-> HalfPi],
    [frame |-> "map",  x |-> 8, y |-> 0, yaw |-> 0] }

\* values of the lookahead parameters in the parameter file
ConfiguredMin == 1
ConfiguredMax == 3
ConfiguredCloseToGoal == 2
\* value a reconfiguration request carries
RequestedValue == 4

\* parameters a reconfiguration batch can carry.  A name is plugin_name_,
\* then "." or nothing, then a key.
ParamChoices ==
  { [key |-> "lookahead_dist_min", dotted |-> TRUE,  type |-> "double",
     value |-> RequestedValue],
    [key |-> "lookahead_dist_min", dotted |-> FALSE, type |-> "double",
     value |-> RequestedValue],
    [key |-> "lookahead_dist_max", dotted |-> FALSE, type |-> "double",
     value |-> RequestedValue] }

\* batches: a request sets at least one parameter, each at most once
Batches ==
  { b \in SeqsUpTo(ParamChoices, MaxBatchLen) :
      /\ b # <<>>
      /\ \A i, j \in 1 .. Len(b) : b[i] = b[j] => i = j }

(***************************************************************************)
(* Geometry.                                                               *)
(***************************************************************************)
Sq(n) == n * n

\* squared nav2_util::geometry_utils::euclidean_distance of two poses
DistSq(a, b) == Sq(a.x - b.x) + Sq(a.y - b.y)


\* the test of line 105 with >= for >: a pose at exactly max_transform_dist
\* counts as out of range
DistGTOrEqual(a, b, d) == d <= 0 \/ DistSq(a, b) >= Sq(d)

\* euclidean_distance(a, b) > d
DistGT(a, b, d) == d < 0 \/ DistSq(a, b) > Sq(d)

\* euclidean_distance(a, b) <= d
DistLE(a, b, d) == d >= 0 /\ DistSq(a, b) <= Sq(d)


\* hypot(p.x, p.y) > d: the comparison of line 180 made strict
HypotGT(p, d) == d < 0 \/ Sq(p.x) + Sq(p.y) > Sq(d)

\* hypot(p.x, p.y) >= d
HypotGE(p, d) == d <= 0 \/ Sq(p.x) + Sq(p.y) >= Sq(d)

\* yaw of an orientation, in (-pi, pi]
createYawFromQuat(orientation) ==
  LET r == orientation % (2 * Pi)
  IN  IF r > Pi THEN r - 2 * Pi ELSE r

Fabs(a) == IF a < 0 THEN -a ELSE a

DefaultPose == [x |-> 0, y |-> 0, yaw |-> 0]
DefaultPoseStamped == [frame |-> "", x |-> 0, y |-> 0, yaw |-> 0]

\* what tf_->transform computes when the lookup succeeds.  robot is the
\* robot's pose in the map frame, i.e. the map -> base_link transform.
TfTransform(in_pose, frame, robot) ==
  IF in_pose.frame = "odom" /\ frame = "map"
  THEN [frame |-> frame, x |-> in_pose.x + OdomInMapX, y |-> in_pose.y,
        yaw |-> in_pose.yaw]
  ELSE \* map -> base_link: translate by -robot, rotate by -robot.yaw
       LET dx == in_pose.x - robot.x
           dy == in_pose.y - robot.y
           quarter == createYawFromQuat(robot.yaw) = HalfPi
       IN  [frame |-> frame,
            x |-> IF quarter THEN dy ELSE dx,
            y |-> IF quarter THEN -dx ELSE dy,
            yaw |-> in_pose.yaw - robot.yaw]


\* transformPose with the failure of the lookup not reported
transformPoseUnreported(frame, in_pose, out_pose, robot, tfOk) ==
  IF in_pose.frame = frame THEN <<TRUE, in_pose>>
  ELSE IF tfOk THEN <<TRUE, TfTransform(in_pose, frame, robot)>>
  ELSE <<TRUE, out_pose>>

\* transformPose: <<returned flag, out_pose>>.  tfOk says whether the tf
\* lookup succeeds; out_pose keeps its previous value when it does not.
transformPose(frame, in_pose, out_pose, robot, tfOk) ==
  IF in_pose.frame = frame THEN <<TRUE, in_pose>>
  ELSE IF tfOk THEN <<TRUE, TfTransform(in_pose, frame, robot)>>
  ELSE <<FALSE, out_pose>>

(***************************************************************************)
(* Pure helpers of the control tick.                                       *)
(***************************************************************************)
Last(s) == s[Len(s)]


\* min_by keeping the last of several closest poses
CloserOrEqual(comp, lowest) == comp <= lowest

\* the comparison nav2_util::geometry_utils::min_by makes: a later pose
\* replaces the running minimum only when it is strictly closer
Closer(comp, lowest) == comp < lowest

\* min_by over global_plan_.poses: index of the closest pose
RECURSIVE MinByFrom(_, _, _, _)
MinByFrom(poses, robot, it, lowest_it) ==
  IF it > Len(poses) THEN lowest_it
  ELSE IF Closer(DistSq(robot, poses[it]), DistSq(robot, poses[lowest_it]))
       THEN MinByFrom(poses, robot, it + 1, it)
       ELSE MinByFrom(poses, robot, it + 1, lowest_it)

TransformationBegin(poses, robot) == MinByFrom(poses, robot, 2, 1)

\* find_if with the range test lost: the window always runs to the plan's end
TransformationEndAtPlanEnd(poses, robot, it) == Len(poses) + 1

\* std::find_if from transformation_begin: index of the first pose farther
\* than max_transform_dist, Len + 1 when there is none
RECURSIVE TransformationEnd(_, _, _)
TransformationEnd(poses, robot, it) ==
  IF it > Len(poses) THEN it
  ELSE IF DistGT(robot, poses[it], MaxTransformDist) THEN it
       ELSE TransformationEnd(poses, robot, it + 1)


\* the window taken from the start of the plan, not from the closest pose
WindowFromStart(poses, begin, end) == SubSeq(poses, 1, end - 1)

\* the poses std::transform visits: [transformation_begin, transformation_end)
WindowRange(poses, begin, end) == SubSeq(poses, begin, end - 1)

\* the lambda transformGlobalPoseToLocal
transformGlobalPoseToLocal(global_plan_pose, robot, tfOk) ==
  LET stamped_pose == [frame |-> PlanFrame, x |-> global_plan_pose.x,
                       y |-> global_plan_pose.y, yaw |-> global_plan_pose.yaw]
  IN  transformPose(BaseFrame, stamped_pose, DefaultPoseStamped, robot, tfOk)[2]


\* the erase of line 127 not made
ErasePrefixSkipped(poses, begin) == poses

\* global_plan_.poses.erase(begin(), transformation_begin)
ErasePrefix(poses, begin) == SubSeq(poses, begin, Len(poses))

\* closer_to_goal, as transformGlobalPlan sets it
CloserToGoal(robot, poses, close_to_goal) ==
  DistLE(robot, Last(poses), close_to_goal)


\* getLookAheadDistance without the inner test of line 166: near the goal
\* the max distance is used
getLookAheadDistanceNoGoalCase(slow, closer, dmin, dmax, dclose) ==
  IF ~slow \/ closer THEN dmax ELSE dmin

\* lines 157-171; slow and closer are slow_down_ and closer_to_goal as the
\* call of line 211 finds them
getLookAheadDistance(slow, closer, dmin, dmax, dclose) ==
  IF ~slow \/ closer
  THEN (IF closer THEN dclose ELSE dmax)
  ELSE dmin

\* std::find_if over the window: index of the first pose at least
\* lookahead_dist from the origin, Len + 1 when there is none
RECURSIVE FindFirstFar(_, _, _)
FindFirstFar(poses, dist, it) ==
  IF it > Len(poses) THEN it
  ELSE IF HypotGE(poses[it], dist) THEN it
       ELSE FindFirstFar(poses, dist, it + 1)

getLookAheadPoint(dist, plan) ==
  LET goal_pose_it == FindFirstFar(plan, dist, 1)
  IN  IF goal_pose_it = Len(plan) + 1 THEN plan[Len(plan)]
      ELSE plan[goal_pose_it]


\* lines 221-232 with the cost tests made >= 200
SlowDownAfterAtThreshold(carrot, check_pose_up, cost) ==
  IF Fabs(createYawFromQuat(carrot.yaw)) < 1000
  THEN Fabs(createYawFromQuat(check_pose_up.yaw)) > 1000 /\ cost >= 200
  ELSE Fabs(createYawFromQuat(carrot.yaw)) >= 1000 /\ cost >= 200

\* slow_down_ after lines 221-232
SlowDownAfter(carrot, check_pose_up, cost) ==
  IF Fabs(createYawFromQuat(carrot.yaw)) < 1000
  THEN Fabs(createYawFromQuat(check_pose_up.yaw)) > 1000 /\ cost > 200
  ELSE IF Fabs(createYawFromQuat(carrot.yaw)) >= 1000 /\ cost > 200
       THEN TRUE
       ELSE FALSE


\* the collision gate comparing against a value no cost reaches
CollisionUndetected(cost) == cost > 255

\* the collision gate of line 234
CollisionDetected(cost) == cost = 255


\* the comparison made after the new goal has been stored
GoalDiffersAfterStore(goal, plan) == Last(plan) # Last(plan)

\* the comparison setPlan makes before it stores the new goal
GoalDiffers(goal, plan) == goal # Last(plan)


\* try_lock with its result not checked
TryLockUnchecked(m) == TRUE

\* std::mutex::try_lock: succeeds exactly when nobody holds the mutex.  The
\* callback calls it while it owns mutex_ itself (lock_guard of line 339);
\* the standard leaves that undefined, and pthread_mutex_trylock, which
\* std::mutex is built on, answers EBUSY for an owned default mutex, so
\* the call returns false there too.
TryLock(m) == m = "free"


\* the test of line 348 never true: no parameter is skipped
HasDotNever(p) == FALSE

\* name.find('.') != npos; plugin_name_ itself holds no '.'
HasDot(p) == p.dotted

\* name == plugin_name_ + key
NameIs(p, key) == ~p.dotted /\ p.key = key

(***************************************************************************)
(* State.                                                                  *)
(***************************************************************************)
VARIABLES
  global_plan_,                  \* poses of the stored plan
  goal_pose,
  slow_down_,                    \* speed regime: TRUE is SLOWED
  closer_to_goal,
  lookahead_dist_min_,
  lookahead_dist_max_,
  lookahead_dist_close_to_goal_,
  mutex_,                        \* "free", or the thread holding it
  tickPc,                        \* position of the control thread
  position,                      \* argument of computeVelocityCommands
  robot_pose,                    \* locals of the running tick
  transformed_plan,
  lookahead_dist,
  carrot_pose,
  footprint_cost,
  request,                       \* request sent to the optimizer, if any
  tickResult,                    \* what the tick returned or threw
  cbPc,                          \* position of the parameter thread
  parameters,                    \* argument of dynamicParametersCallback
  cbIdx,                         \* loop position in parameters
  result,                        \* result.successful, "unset" before
  prePlan,                       \* history: stored plan when the tick began
  replanned,                     \* history: goal changed since last regime update
  cbEntry                        \* history of the running callback: mutex_ and
                                 \* the parameters at entry, try_lock called

planState == <<global_plan_, goal_pose, slow_down_, closer_to_goal>>
lookaheadParams ==
  <<lookahead_dist_min_, lookahead_dist_max_, lookahead_dist_close_to_goal_>>
tickLocals == <<position, robot_pose, transformed_plan, lookahead_dist,
                carrot_pose, footprint_cost, request, tickResult>>
cbState == <<cbPc, parameters, cbIdx, result, cbEntry>>
vars == <<planState, lookaheadParams, mutex_, tickPc, tickLocals, cbState,
          prePlan, replanned>>

NoRequest == [sent |-> FALSE]

\* no callback is running
NoEntry == [mutex |-> "free", params |-> <<0, 0, 0>>, tried |-> FALSE]

ClearedLocals ==
  /\ position = DefaultPoseStamped
  /\ robot_pose = DefaultPoseStamped
  /\ transformed_plan = <<>>
  /\ lookahead_dist = 0
  /\ carrot_pose = DefaultPoseStamped
  /\ footprint_cost = -1
  /\ request = NoRequest
  /\ tickResult = "none"
  /\ prePlan = <<>>

\* the state after configure(): no plan yet, default goal pose, parameters
\* read from the parameter file.  The two flags are declared in the header,
\* which gives them no initial value here, so both values are covered.
Init ==
  /\ global_plan_ = <<>>
  /\ goal_pose = DefaultPose
  /\ slow_down_ \in BOOLEAN
  /\ closer_to_goal \in BOOLEAN
  /\ lookahead_dist_min_ = ConfiguredMin
  /\ lookahead_dist_max_ = ConfiguredMax
  /\ lookahead_dist_close_to_goal_ = ConfiguredCloseToGoal
  /\ mutex_ = "free"
  /\ tickPc = "idle"
  /\ ClearedLocals
  /\ cbPc = "idle"
  /\ parameters = <<>>
  /\ cbIdx = 1
  /\ result = "unset"
  /\ replanned = FALSE
  /\ cbEntry = NoEntry

(***************************************************************************)
(* The control thread: setPlan and computeVelocityCommands.                *)
(***************************************************************************)
\* std::lock_guard's constructor returns once the mutex is free
LockAvailable(m) == m = "free"

\* the stored plan has no poses (line 69)
PlanIsEmpty(poses) == Len(poses) = 0

\* setPlan, lines 274-281.  The controller server calls it between ticks.
SetPlan ==
  /\ tickPc = "idle"
  /\ \E plan \in Plans :
       /\ global_plan_' = plan
       /\ slow_down_' = IF GoalDiffers(goal_pose, plan) THEN TRUE ELSE slow_down_
       /\ goal_pose' = Last(plan)
       /\ replanned' = IF goal_pose # plan[Len(plan)] THEN TRUE ELSE replanned
  /\ UNCHANGED <<closer_to_goal, lookaheadParams, mutex_, tickPc, tickLocals,
                 cbState, prePlan>>

\* computeVelocityCommands is entered with a robot pose
TickCall ==
  /\ tickPc = "idle"
  /\ \E pos \in Positions : position' = pos
  /\ tickPc' = "lock"
  /\ UNCHANGED <<planState, lookaheadParams, mutex_, robot_pose,
                 transformed_plan, lookahead_dist, carrot_pose, footprint_cost,
                 request, tickResult, cbState, prePlan, replanned>>

\* line 207: lock_guard lock_reinit(mutex_)
TickLock ==
  /\ tickPc = "lock"
  /\ LockAvailable(mutex_)
  /\ mutex_' = "tick"
  /\ tickPc' = "transform"
  /\ prePlan' = global_plan_
  /\ UNCHANGED <<planState, lookaheadParams, tickLocals, cbState, replanned>>


\* an exception leaves the tick with the mutex still locked, as after a
\* mutex_.lock() with no unlock on the throwing path
ThrowHoldingLock(what) ==
  /\ tickResult' = what
  /\ tickPc' = "done"
  /\ mutex_' = mutex_

\* an exception leaves computeVelocityCommands: the lock_guard releases
Throw(what) ==
  /\ tickResult' = what
  /\ tickPc' = "done"
  /\ mutex_' = "free"

\* line 208: transformGlobalPlan(position), lines 66-135
TickTransform ==
  /\ tickPc = "transform"
  /\ IF PlanIsEmpty(global_plan_)
     THEN /\ Throw("EmptyPlan")
          /\ UNCHANGED <<planState, robot_pose, transformed_plan>>
     ELSE \E tfOk \in BOOLEAN :
            LET tp == transformPose(PlanFrame, position, DefaultPoseStamped,
                                    DefaultPoseStamped, tfOk)
                robot == tp[2]
                begin == TransformationBegin(global_plan_, robot)
                end == TransformationEnd(global_plan_, robot, begin)
                range == WindowRange(global_plan_, begin, end)
            IN  IF ~tp[1]
                THEN /\ Throw("TransformUnavailable")
                     /\ UNCHANGED <<planState, robot_pose, transformed_plan>>
                ELSE /\ robot_pose' = robot
                     /\ closer_to_goal' =
                          CloserToGoal(robot, global_plan_,
                                       lookahead_dist_close_to_goal_)
                     /\ \E failed \in SUBSET (1 .. Len(range)) :
                          transformed_plan' =
                            [i \in 1 .. Len(range) |->
                               transformGlobalPoseToLocal(range[i], robot,
                                                          i \notin failed)]
                     /\ global_plan_' = ErasePrefix(global_plan_, begin)
                     /\ UNCHANGED <<goal_pose, slow_down_>>
                     /\ IF Len(range) = 0
                        THEN Throw("EmptyWindow")
                        ELSE /\ tickPc' = "control"
                             /\ UNCHANGED <<mutex_, tickResult>>
  /\ UNCHANGED <<lookaheadParams, position, lookahead_dist, carrot_pose,
                 footprint_cost, request, cbState, prePlan, replanned>>

\* lines 211-248: lookahead distance and carrot, footprint cost, regime
\* update, collision gate, request to the optimizer
TickControl ==
  /\ tickPc = "control"
  /\ \E cost \in Costs :
       LET dist == getLookAheadDistance(slow_down_, closer_to_goal,
                      lookahead_dist_min_, lookahead_dist_max_,
                      lookahead_dist_close_to_goal_)
           carrot == getLookAheadPoint(dist, transformed_plan)
           check_pose_up == getLookAheadPoint(dist, transformed_plan)
       IN  /\ lookahead_dist' = dist
           /\ carrot_pose' = carrot
           /\ footprint_cost' = cost
           /\ slow_down_' = SlowDownAfter(carrot, check_pose_up, cost)
           /\ replanned' = FALSE
           /\ IF CollisionDetected(cost)
              THEN /\ Throw("Collision")
                   /\ UNCHANGED request
              ELSE /\ request' = [sent |-> TRUE, carrot_pose |-> carrot,
                                  goal_pose |-> goal_pose,
                                  current_pose |-> position,
                                  switch_opt |-> closer_to_goal]
                   /\ tickPc' = "wait"
                   /\ UNCHANGED <<mutex_, tickResult>>
  /\ UNCHANGED <<global_plan_, goal_pose, closer_to_goal, lookaheadParams,
                 position, robot_pose, transformed_plan, cbState, prePlan>>

\* lines 250-254: result.get() returns the optimizer's answer, the tick
\* returns it and the lock_guard releases
OptimizerRespond ==
  /\ tickPc = "wait"
  /\ tickResult' = "cmd_vel"
  /\ tickPc' = "done"
  /\ mutex_' = "free"
  /\ UNCHANGED <<planState, lookaheadParams, position, robot_pose,
                 transformed_plan, lookahead_dist, carrot_pose, footprint_cost,
                 request, cbState, prePlan, replanned>>

\* the caller takes the command or the exception; the tick's frame is gone
TickReturn ==
  /\ tickPc = "done"
  /\ tickPc' = "idle"
  /\ position' = DefaultPoseStamped
  /\ robot_pose' = DefaultPoseStamped
  /\ transformed_plan' = <<>>
  /\ lookahead_dist' = 0
  /\ carrot_pose' = DefaultPoseStamped
  /\ footprint_cost' = -1
  /\ request' = NoRequest
  /\ tickResult' = "none"
  /\ prePlan' = <<>>
  /\ UNCHANGED <<planState, lookaheadParams, mutex_, cbState, replanned>>

(***************************************************************************)
(* The parameter thread: dynamicParametersCallback, lines 336-376.         *)
(***************************************************************************)
CbCall ==
  /\ cbPc = "idle"
  /\ \E batch \in Batches : parameters' = batch
  /\ cbPc' = "lock"
  /\ cbIdx' = 1
  /\ result' = "unset"
  /\ cbEntry' = [mutex |-> mutex_, params |-> lookaheadParams,
                 tried |-> FALSE]
  /\ UNCHANGED <<planState, lookaheadParams, mutex_, tickPc, tickLocals,
                 prePlan, replanned>>

\* line 339: lock_guard lock_reinit(mutex_)
CbLock ==
  /\ cbPc = "lock"
  /\ LockAvailable(mutex_)
  /\ mutex_' = "cb"
  /\ cbPc' = "loop"
  /\ UNCHANGED <<planState, lookaheadParams, tickPc, tickLocals, parameters,
                 cbIdx, result, cbEntry, prePlan, replanned>>

\* lines 362-370: the assignment a parameter of type double makes
ApplyParameter(p) ==
  /\ lookahead_dist_min_' =
       IF p.type = "double" /\ NameIs(p, "lookahead_dist_min")
       THEN p.value ELSE lookahead_dist_min_
  /\ lookahead_dist_max_' =
       IF p.type = "double" /\ ~NameIs(p, "lookahead_dist_min")
          /\ NameIs(p, "lookahead_dist_max")
       THEN p.value ELSE lookahead_dist_max_
  /\ lookahead_dist_close_to_goal_' =
       IF p.type = "double" /\ ~NameIs(p, "lookahead_dist_min")
          /\ ~NameIs(p, "lookahead_dist_max")
          /\ NameIs(p, "lookahead_dist_close_to_goal")
       THEN p.value ELSE lookahead_dist_close_to_goal_

\* one iteration of the loop of lines 342-372
CbLoop ==
  /\ cbPc = "loop"
  /\ cbIdx <= Len(parameters)
  /\ LET p == parameters[cbIdx]
     IN  IF HasDot(p)
         THEN /\ cbIdx' = cbIdx + 1
              /\ UNCHANGED <<lookaheadParams, mutex_, cbPc, result, cbEntry>>
         ELSE /\ cbEntry' = [cbEntry EXCEPT !.tried = TRUE]
              /\ IF ~TryLock(mutex_)
                 THEN \* lines 353-359: report failure and return
                      /\ result' = FALSE
                      /\ cbPc' = "done"
                      /\ mutex_' = "free"
                      /\ UNCHANGED <<lookaheadParams, cbIdx>>
                 ELSE \* lines 362-371: assign, then mutex_.unlock()
                      /\ ApplyParameter(p)
                      /\ mutex_' = "free"
                      /\ cbIdx' = cbIdx + 1
                      /\ UNCHANGED <<cbPc, result>>
  /\ UNCHANGED <<planState, tickPc, tickLocals, parameters, prePlan,
                 replanned>>

\* lines 374-375: the loop ran out: report success and return
CbFinish ==
  /\ cbPc = "loop"
  /\ cbIdx > Len(parameters)
  /\ result' = TRUE
  /\ cbPc' = "done"
  /\ mutex_' = "free"
  /\ UNCHANGED <<planState, lookaheadParams, tickPc, tickLocals, parameters,
                 cbIdx, cbEntry, prePlan, replanned>>

\* the framework takes the SetParametersResult
CbReturn ==
  /\ cbPc = "done"
  /\ cbPc' = "idle"
  /\ parameters' = <<>>
  /\ cbIdx' = 1
  /\ result' = "unset"
  /\ cbEntry' = NoEntry
  /\ UNCHANGED <<planState, lookaheadParams, mutex_, tickPc, tickLocals,
                 prePlan, replanned>>

TickNext ==
  SetPlan \/ TickCall \/ TickLock \/ TickTransform \/ TickControl
    \/ OptimizerRespond \/ TickReturn

CbNext == CbCall \/ CbLock \/ CbLoop \/ CbFinish \/ CbReturn

Next == TickNext \/ CbNext

Spec == Init /\ [][Next]_vars

(***************************************************************************)
(* getLookAheadPoint on its own: every window and distance of the bounded  *)
(* sets below, selected once and then once more.                           *)
(***************************************************************************)
\* poses of a window, in the base frame
LocalPoses ==
  { [frame |-> BaseFrame, x |-> 0, y |-> 0, yaw |-> 0],
    [frame |-> BaseFrame, x |-> 1, y |-> 0, yaw |-> 500],
    [frame |-> BaseFrame, x |-> 0, y |-> -2, yaw |-> 1200],
    [frame |-> BaseFrame, x |-> 3, y |-> 4, yaw |-> 0] }

Windows == SeqsUpTo(LocalPoses, MaxPlanLen) \ { <<>> }

LookaheadDists == {0, 1, 2, 5, 6}

SelInit ==
  /\ global_plan_ = <<>>
  /\ goal_pose = DefaultPose
  /\ slow_down_ = FALSE
  /\ closer_to_goal = FALSE
  /\ lookahead_dist_min_ = ConfiguredMin
  /\ lookahead_dist_max_ = ConfiguredMax
  /\ lookahead_dist_close_to_goal_ = ConfiguredCloseToGoal
  /\ mutex_ = "tick"
  /\ tickPc = "select"
  /\ position = DefaultPoseStamped
  /\ robot_pose = DefaultPoseStamped
  /\ transformed_plan \in Windows
  /\ lookahead_dist \in LookaheadDists
  /\ carrot_pose = DefaultPoseStamped
  /\ footprint_cost = -1
  /\ request = NoRequest
  /\ tickResult = "none"
  /\ prePlan = <<>>
  /\ cbPc = "idle"
  /\ parameters = <<>>
  /\ cbIdx = 1
  /\ result = "unset"
  /\ replanned = FALSE
  /\ cbEntry = NoEntry

\* line 214: carrot_pose = getLookAheadPoint(lookahead_dist, transformed_plan)
SelectCarrot ==
  /\ tickPc = "select"
  /\ carrot_pose' = getLookAheadPoint(lookahead_dist, transformed_plan)
  /\ tickPc' = "selected"
  /\ UNCHANGED <<planState, lookaheadParams, mutex_, position, robot_pose,
                 transformed_plan, lookahead_dist, footprint_cost, request,
                 tickResult, cbState, prePlan, replanned>>

\* line 224: getLookAheadPoint(lookahead_dist, transformed_plan) once more
SelectAgain ==
  /\ tickPc = "selected"
  /\ carrot_pose' = getLookAheadPoint(lookahead_dist, transformed_plan)
  /\ tickPc' = "reselected"
  /\ UNCHANGED <<planState, lookaheadParams, mutex_, position, robot_pose,
                 transformed_plan, lookahead_dist, footprint_cost, request,
                 tickResult, cbState, prePlan, replanned>>

SelNext == SelectCarrot \/ SelectAgain

SelectSpec == SelInit /\ [][SelNext]_vars

(***************************************************************************)
(* dynamicParametersCallback on its own: batches of every name, type and   *)
(* value of the bounded sets below, with no tick running.                  *)
(***************************************************************************)
LookaheadKeys ==
  {"lookahead_dist_min", "lookahead_dist_max", "lookahead_dist_close_to_goal"}

AnyParamChoices ==
  [key : LookaheadKeys, dotted : BOOLEAN, type : {"double", "integer"},
   value : {0, RequestedValue}]

AnyBatches ==
  { b \in SeqsUpTo(AnyParamChoices, MaxBatchLen) :
      /\ b # <<>>
      /\ \A i, j \in 1 .. Len(b) : b[i] = b[j] => i = j }

CbCallAny ==
  /\ cbPc = "idle"
  /\ \E batch \in AnyBatches : parameters' = batch
  /\ cbPc' = "lock"
  /\ cbIdx' = 1
  /\ result' = "unset"
  /\ cbEntry' = [mutex |-> mutex_, params |-> lookaheadParams,
                 tried |-> FALSE]
  /\ UNCHANGED <<planState, lookaheadParams, mutex_, tickPc, tickLocals,
                 prePlan, replanned>>

ReconfigureNext == CbCallAny \/ CbLock \/ CbLoop \/ CbFinish \/ CbReturn

ReconfigureSpec == Init /\ [][ReconfigureNext]_vars

(***************************************************************************)
(* Both threads under fair scheduling, with plans of one pose and batches  *)
(* of one parameter: every way a tick can end, and every way the two       *)
(* threads can meet at the lock, occurs with these.                        *)
(***************************************************************************)
ShortPlans == { p \in Plans : Len(p) = 1 }

ShortBatches == { b \in Batches : Len(b) = 1 }

SetPlanShort ==
  /\ tickPc = "idle"
  /\ \E plan \in ShortPlans :
       /\ global_plan_' = plan
       /\ slow_down_' = IF GoalDiffers(goal_pose, plan) THEN TRUE ELSE slow_down_
       /\ goal_pose' = Last(plan)
       /\ replanned' = IF goal_pose # plan[Len(plan)] THEN TRUE ELSE replanned
  /\ UNCHANGED <<closer_to_goal, lookaheadParams, mutex_, tickPc, tickLocals,
                 cbState, prePlan>>

CbCallShort ==
  /\ cbPc = "idle"
  /\ \E batch \in ShortBatches : parameters' = batch
  /\ cbPc' = "lock"
  /\ cbIdx' = 1
  /\ result' = "unset"
  /\ cbEntry' = [mutex |-> mutex_, params |-> lookaheadParams,
                 tried |-> FALSE]
  /\ UNCHANGED <<planState, lookaheadParams, mutex_, tickPc, tickLocals,
                 prePlan, replanned>>

FairNext ==
  \/ SetPlanShort \/ TickCall \/ TickLock \/ TickTransform \/ TickControl
  \/ OptimizerRespond \/ TickReturn
  \/ CbCallShort \/ CbLock \/ CbLoop \/ CbFinish \/ CbReturn

\* The control thread runs on once it holds the lock (lines 208-248 are
\* straight-line code), and the optimizer answers every request it gets.
\* Nothing is assumed of std::mutex's choice between two waiting threads,
\* nor of when the callers call.
FairSpec ==
  /\ Init
  /\ [][FairNext]_vars
  /\ WF_vars(TickTransform)
  /\ WF_vars(TickControl)
  /\ WF_vars(OptimizerRespond)

(***************************************************************************)
(* The control thread with a second caller of setPlan.  setPlan takes no   *)
(* lock (lines 274-281), so nothing in it waits for a running tick; the    *)
(* second caller is let in while the tick is blocked in result.get()       *)
(* (line 250), where the tick itself touches no field setPlan writes.      *)
(***************************************************************************)
SetPlanDuringTick ==
  /\ tickPc = "wait"
  /\ \E plan \in Plans :
       /\ global_plan_' = plan
       /\ slow_down_' = IF GoalDiffers(goal_pose, plan) THEN TRUE ELSE slow_down_
       /\ goal_pose' = Last(plan)
       /\ replanned' = IF goal_pose # plan[Len(plan)] THEN TRUE ELSE replanned
  /\ UNCHANGED <<closer_to_goal, lookaheadParams, mutex_, tickPc, tickLocals,
                 cbState, prePlan>>

RaceNext == TickNext \/ SetPlanDuringTick

RaceSpec == Init /\ [][RaceNext]_vars

(***************************************************************************)
(* Properties.                                                             *)
(***************************************************************************)
\* the tick holds the lock and has not yet returned or thrown
InTick == tickPc \in {"transform", "control", "wait"}

\* the tick got past the empty-plan check and the robot-pose transform
PassedChecks ==
  /\ tickPc \in {"control", "wait", "done"}
  /\ prePlan # <<>>
  /\ robot_pose.frame = PlanFrame

TickFailed ==
  tickResult \in {"EmptyPlan", "TransformUnavailable", "EmptyWindow",
                  "Collision"}

\* C1: a tick whose footprint cost is the collision sentinel 255 ends with
\* the collision error, and no request has gone to the optimizer.
C1_CollisionAbortsTick ==
  (tickPc \in {"wait", "done"} /\ footprint_cost = 255)
    => /\ tickPc = "done"
       /\ tickResult = "Collision"
       /\ request = NoRequest

C1_Witness ==
  /\ tickPc = "done"
  /\ footprint_cost = 255
  /\ tickResult = "Collision"
  /\ transformed_plan # <<>>

\* C2: a tick that finds the stored plan empty, cannot transform the robot
\* pose into the plan's frame, or gets a window of zero poses, fails with
\* that error and sends no request; a failed tick carries no command.
C2_FailFast ==
  /\ tickPc \in {"control", "wait", "done"} =>
       /\ prePlan = <<>> =>
            tickPc = "done" /\ tickResult = "EmptyPlan" /\ request = NoRequest
       /\ (prePlan # <<>> /\ robot_pose.frame # PlanFrame) =>
            /\ tickPc = "done"
            /\ tickResult = "TransformUnavailable"
            /\ request = NoRequest
       /\ (PassedChecks /\ transformed_plan = <<>>) =>
            tickPc = "done" /\ tickResult = "EmptyWindow" /\ request = NoRequest
  /\ TickFailed => (tickPc = "done" /\ request = NoRequest)
  /\ request # NoRequest => tickResult \in {"none", "cmd_vel"}

C2_Witness ==
  /\ tickPc = "done"
  /\ tickResult = "TransformUnavailable"
  /\ prePlan # <<>>
  /\ position.frame = "odom"

\* C3: while a tick is between taking the lock and releasing it, no step
\* of any thread changes one of the three lookahead parameters.
C3_NoReconfigurationDuringTick ==
  [][(InTick /\ InTick') => lookaheadParams' = lookaheadParams]_vars

\* a tick waits for the optimizer while a batch that would change a
\* parameter stands at the callback's lock
C3_Witness ==
  /\ tickPc = "wait"
  /\ cbPc = "lock"
  /\ \E i \in 1 .. Len(parameters) :
       /\ NameIs(parameters[i], "lookahead_dist_min")
       /\ parameters[i].type = "double"
       /\ parameters[i].value # lookahead_dist_min_

\* C4: a callback that has been entered can always take its next step: it
\* never stands waiting for the lock.
C4_CallbackNeverWaits ==
  cbPc \in {"lock", "loop"} => ENABLED CbNext

\* C5, as stated: a batch that arrived while a tick held the lock reports
\* failure and leaves the three lookahead parameters as they were.
C5_BatchDuringTickFails ==
  (cbPc = "done" /\ cbEntry.mutex = "tick")
    => (result = FALSE /\ lookaheadParams = cbEntry.params)

\* C5, amended: a batch that arrived while a tick held the lock changes
\* none of the three lookahead parameters; it reports failure exactly when
\* it holds a parameter whose name has no '.', and success otherwise.
C5_BatchDuringTickAppliesNothing ==
  (cbPc # "idle" /\ cbEntry.mutex = "tick")
    => /\ lookaheadParams = cbEntry.params
       /\ cbPc = "done" =>
            (result = FALSE <=>
               \E i \in 1 .. Len(parameters) : ~HasDot(parameters[i]))

C5_Witness ==
  /\ cbPc = "done"
  /\ cbEntry.mutex = "tick"
  /\ result = FALSE
  /\ Len(parameters) = 2
  /\ \A i \in 1 .. 2 : ~HasDot(parameters[i])

\* C6: a batch of one double-valued lookahead_dist_min parameter, handled
\* with no tick in progress, reports success and lookahead_dist_min_ holds
\* the new value.
C6_RuntimeMutable ==
  ( /\ cbPc = "done"
    /\ cbEntry.mutex = "free"
    /\ tickPc = "idle"
    /\ Len(parameters) = 1
    /\ parameters[1].key = "lookahead_dist_min"
    /\ parameters[1].type = "double" )
    => (result = TRUE /\ lookahead_dist_min_ = parameters[1].value)

TrimPoint == Len(prePlan) - Len(global_plan_) + 1

\* C8: after a tick that passed the two checks the stored plan is the
\* suffix of the pre-tick plan that starts at the first pose of least
\* distance to the robot; so it is not longer, not empty, and ends in the
\* same pose.  The stored plan always ends in the goal pose.
C8_SlidingWindow ==
  /\ PassedChecks =>
       /\ TrimPoint \in 1 .. Len(prePlan)
       /\ global_plan_ = SubSeq(prePlan, TrimPoint, Len(prePlan))
       /\ \A j \in 1 .. Len(prePlan) :
            DistSq(robot_pose, prePlan[TrimPoint])
              <= DistSq(robot_pose, prePlan[j])
       /\ \A j \in 1 .. TrimPoint - 1 :
            DistSq(robot_pose, prePlan[TrimPoint])
              < DistSq(robot_pose, prePlan[j])
       /\ Len(global_plan_) <= Len(prePlan)
       /\ global_plan_ # <<>>
       /\ global_plan_[Len(global_plan_)] = prePlan[Len(prePlan)]
  /\ global_plan_ # <<>> => global_plan_[Len(global_plan_)] = goal_pose

\* a tick erased a pose although a later pose is as close as the one kept
C8_Witness ==
  /\ PassedChecks
  /\ Len(global_plan_) > 1
  /\ Len(global_plan_) < Len(prePlan)
  /\ DistSq(robot_pose, global_plan_[1]) = DistSq(robot_pose, global_plan_[2])

\* the closest pose of the pre-tick plan is within max_transform_dist
RobotInRange ==
  \E j \in 1 .. Len(prePlan) :
    DistSq(robot_pose, prePlan[j]) <= Sq(MaxTransformDist)

\* w is plan pose p seen from the robot: same distance, heading relative
\* to the robot's, stamped with the base frame
IsReprojected(w, p) ==
  /\ w.frame = BaseFrame
  /\ Sq(w.x) + Sq(w.y) = DistSq(p, robot_pose)
  /\ createYawFromQuat(w.yaw) = createYawFromQuat(p.yaw - robot_pose.yaw)

\* window pose w stands for plan pose p: p reprojected, or the pose left
\* by a transform that failed
StandsFor(w, p) == IsReprojected(w, p) \/ w = DefaultPoseStamped

\* C9, as stated: the window is a suffix of the pre-trim plan: it runs from
\* the closest pose to the plan's last pose.
C9_WindowIsSuffix ==
  (PassedChecks /\ RobotInRange)
    => /\ Len(transformed_plan) = Len(global_plan_)
       /\ \A i \in 1 .. Len(transformed_plan) :
            StandsFor(transformed_plan[i], global_plan_[i])

\* C9, amended: the window is a contiguous run of the pre-trim plan, in
\* order, that starts at the closest pose and stops before the first pose
\* farther than max_transform_dist, which need not be the end of the plan.
C9_WindowIsRunFromClosest ==
  (PassedChecks /\ RobotInRange)
    => /\ Len(transformed_plan) \in 1 .. Len(global_plan_)
       /\ \A i \in 1 .. Len(transformed_plan) :
            /\ StandsFor(transformed_plan[i], prePlan[TrimPoint + i - 1])
            /\ DistSq(robot_pose, prePlan[TrimPoint + i - 1])
                 <= Sq(MaxTransformDist)
       /\ Len(transformed_plan) < Len(global_plan_) =>
            DistSq(robot_pose, prePlan[TrimPoint + Len(transformed_plan)])
              > Sq(MaxTransformDist)

\* the window starts after the plan's start and stops before its end
C9_Witness ==
  /\ PassedChecks
  /\ RobotInRange
  /\ TrimPoint > 1
  /\ Len(transformed_plan) < Len(global_plan_)
  /\ \A i \in 1 .. Len(transformed_plan) :
       IsReprojected(transformed_plan[i], global_plan_[i])

\* the carrot has been selected from transformed_plan with lookahead_dist
CarrotSelected ==
  \/ tickPc \in {"selected", "reselected"}
  \/ tickPc = "wait"

\* index of the pose the specification of the selector names
ExpectedCarrotIndex ==
  LET far == { i \in 1 .. Len(transformed_plan) :
                 lookahead_dist <= 0
                   \/ Sq(transformed_plan[i].x) + Sq(transformed_plan[i].y)
                        >= Sq(lookahead_dist) }
  IN  IF far = {} THEN Len(transformed_plan)
      ELSE CHOOSE i \in far : \A j \in far : i <= j

\* C10: the carrot is the first pose of the window at least lookahead_dist
\* from the origin, the last pose when there is none; selecting again from
\* the same window and distance gives that pose again.
C10_CarrotIsFirstFarPose ==
  CarrotSelected => carrot_pose = transformed_plan[ExpectedCarrotIndex]

\* selected twice; a pose before the last one is far enough, exactly at
\* the lookahead distance, and the poses before it are not
C10_Witness ==
  /\ tickPc = "reselected"
  /\ Len(transformed_plan) = 3
  /\ ExpectedCarrotIndex = 2
  /\ Sq(transformed_plan[2].x) + Sq(transformed_plan[2].y) = Sq(lookahead_dist)
  /\ carrot_pose # transformed_plan[1]
  /\ carrot_pose # transformed_plan[3]

\* C11: the lookahead distance a tick uses is the close-to-goal distance
\* when the robot is within the close-to-goal threshold of the plan's final
\* pose, as measured in this tick; otherwise the max distance when the
\* regime the tick found on entry is NORMAL and the min distance when it is
\* SLOWED.  The regime the tick computes plays no part in it.
C11_ActiveLookaheadDistance ==
  [][(tickPc = "control" /\ tickPc' # "control") =>
       LET near_goal ==
             DistSq(robot_pose, prePlan[Len(prePlan)])
               <= Sq(lookahead_dist_close_to_goal_)
       IN  /\ closer_to_goal = near_goal
           /\ lookahead_dist' =
                IF near_goal THEN lookahead_dist_close_to_goal_
                ELSE IF slow_down_ THEN lookahead_dist_min_
                     ELSE lookahead_dist_max_]_vars

\* a tick away from the goal used the min distance of the SLOWED regime it
\* began in, and has itself computed NORMAL
C11_Witness ==
  /\ tickPc = "wait"
  /\ ~closer_to_goal
  /\ lookahead_dist = lookahead_dist_min_
  /\ lookahead_dist_min_ # lookahead_dist_max_
  /\ ~slow_down_

\* every pose of the pre-tick plan is farther than max_transform_dist from
\* the robot pose
AllOutOfRange ==
  \A j \in 1 .. Len(prePlan) :
    DistSq(robot_pose, prePlan[j]) > Sq(MaxTransformDist)

\* C13: a tick on a non-empty plan whose poses are all farther than
\* max_transform_dist from the robot pose fails with the empty-window
\* error, and neither a request nor a velocity command comes of it.
C13_AllFarFailsEmptyWindow ==
  (PassedChecks /\ AllOutOfRange)
    => /\ tickPc = "done"
       /\ tickResult = "EmptyWindow"
       /\ transformed_plan = <<>>
       /\ request = NoRequest

\* a plan of several poses, the robot out of range of all of them
C13_Witness ==
  /\ PassedChecks
  /\ AllOutOfRange
  /\ Len(prePlan) > 1
  /\ tickResult = "EmptyWindow"

\* every parameter of the batch has a '.' in its name
OnlyDotted == \A i \in 1 .. Len(parameters) : parameters[i].dotted

\* C14: a batch made only of parameters whose name holds a '.' changes none
\* of the three lookahead parameters and never calls try_lock, whatever
\* keys, types and values it carries.
C14_DottedIgnored ==
  (cbPc \in {"loop", "done"} /\ OnlyDotted)
    => /\ lookaheadParams = cbEntry.params
       /\ ~cbEntry.tried
       /\ cbPc = "loop" => mutex_ = "cb"

\* a batch of two dotted parameters has been handled; one is a double for
\* lookahead_dist_min with a value other than the current one
C14_Witness ==
  /\ cbPc = "done"
  /\ Len(parameters) = 2
  /\ OnlyDotted
  /\ \E i \in 1 .. 2 :
       /\ parameters[i].key = "lookahead_dist_min"
       /\ parameters[i].type = "double"
       /\ parameters[i].value # lookahead_dist_min_
  /\ ~cbEntry.tried

\* plan pose j of the pre-tick plan is within max_transform_dist of the robot
InRange(j) == DistSq(robot_pose, prePlan[j]) <= Sq(MaxTransformDist)

\* C15: the window is the longest run of consecutive plan poses that starts
\* at the closest pose and stays within max_transform_dist of the robot:
\* each window pose stands for the plan pose of its place in the run, the
\* run ends at the plan's end or right before the first pose out of range,
\* whatever lies behind that pose, and the window is empty exactly when
\* the closest pose is out of range.
C15_WindowIsMaximalRun ==
  PassedChecks =>
    LET n == Len(transformed_plan)
    IN  /\ TrimPoint \in 1 .. Len(prePlan)
        /\ \A j \in 1 .. Len(prePlan) :
             DistSq(robot_pose, prePlan[TrimPoint])
               <= DistSq(robot_pose, prePlan[j])
        /\ TrimPoint + n <= Len(prePlan) + 1
        /\ \A i \in 1 .. n :
             /\ InRange(TrimPoint + i - 1)
             /\ StandsFor(transformed_plan[i], prePlan[TrimPoint + i - 1])
        /\ TrimPoint + n <= Len(prePlan) => ~InRange(TrimPoint + n)
        /\ n = 0 <=> ~InRange(TrimPoint)

\* the window stopped at a pose out of range, and the pose behind that one
\* is within range again
C15_Witness ==
  /\ PassedChecks
  /\ Len(transformed_plan) >= 1
  /\ TrimPoint + Len(transformed_plan) + 1 <= Len(prePlan)
  /\ InRange(TrimPoint + Len(transformed_plan) + 1)
  /\ \A i \in 1 .. Len(transformed_plan) :
       IsReprojected(transformed_plan[i], prePlan[TrimPoint + i - 1])

\* the running tick has made its regime update
RegimeUpdated == tickPc \in {"wait", "done"} /\ footprint_cost # -1

\* |yaw| of the carrot, in milliradians, as lines 221 and 228 read it
CarrotHeadingAbs ==
  IF createYawFromQuat(carrot_pose.yaw) < 0
  THEN -createYawFromQuat(carrot_pose.yaw)
  ELSE createYawFromQuat(carrot_pose.yaw)

\* C16: after the regime update of a tick the regime is SLOWED exactly when
\* the carrot's absolute heading is at least 1.0 rad and the footprint cost
\* is above 200, whatever the regime was when the tick began; so with a
\* carrot heading below 1.0 rad the regime is NORMAL at any cost: the
\* override branch never sets SLOWED.
C16_RegimeMemoryless ==
  RegimeUpdated =>
    /\ slow_down_ <=> (CarrotHeadingAbs >= 1000 /\ footprint_cost > 200)
    /\ CarrotHeadingAbs < 1000 => ~slow_down_
    /\ carrot_pose = getLookAheadPoint(lookahead_dist, transformed_plan)

\* a tick that began SLOWED away from the goal met a carrot heading below
\* 1.0 rad at a cost above 200 and left the regime NORMAL
C16_Witness ==
  /\ tickPc = "wait"
  /\ ~closer_to_goal
  /\ lookahead_dist = lookahead_dist_min_
  /\ lookahead_dist_min_ # lookahead_dist_max_
  /\ CarrotHeadingAbs \in 1 .. 999
  /\ footprint_cost = 201
  /\ ~slow_down_

\* C17: a tick that has taken the lock ends, given that the optimizer
\* answers every request: with a velocity command or with one error.  Once
\* it has ended, however it ended, the tick no longer holds the lock, so
\* the next tick or a reconfiguration can take it.
C17_TickCompletesAndReleases ==
  /\ [](tickPc \in {"done", "idle", "lock"} => mutex_ # "tick")
  /\ [](tickPc = "done" =>
         tickResult \in {"cmd_vel", "EmptyPlan", "TransformUnavailable",
                         "EmptyWindow", "Collision"})
  /\ [](InTick => mutex_ = "tick")
  /\ (InTick ~> tickPc = "done")

\* a tick has ended with the collision error while a reconfiguration waits
\* for the lock, which is free
C17_Witness ==
  /\ tickPc = "done"
  /\ tickResult = "Collision"
  /\ cbPc = "lock"
  /\ mutex_ = "free"
  /\ ENABLED CbLock

\* C18, as stated: while a tick holds the lock, no step other than the
\* tick's own changes the stored plan, the goal pose or the regime.
C18_PlanGuardedByLock ==
  [][(mutex_ = "tick" /\ tickPc' = tickPc) => planState' = planState]_vars

\* C18, amended: setPlan takes no lock.  While a tick holds the lock and
\* waits for the optimizer, a setPlan call is not held back: it stores the
\* new plan and its final pose as the goal, sets the regime to SLOWED when
\* the goal differs and leaves it alone otherwise, and leaves the lock
\* with the tick and the tick's request as it was built.
C18_SetPlanTakesNoLock ==
  /\ [](tickPc = "wait" => (mutex_ = "tick" /\ ENABLED SetPlanDuringTick))
  /\ [][(tickPc = "wait" /\ tickPc' = "wait") =>
          /\ mutex_' = "tick"
          /\ request' = request
          /\ global_plan_' \in Plans
          /\ goal_pose' = global_plan_'[Len(global_plan_')]
          /\ slow_down_' = (slow_down_ \/ goal_pose' # goal_pose)]_vars

\* a tick waits for the optimizer with a request for the old goal, while
\* the stored goal is another one and the regime, which the tick had set
\* to NORMAL at cost 0, is SLOWED
C18_Witness ==
  /\ tickPc = "wait"
  /\ mutex_ = "tick"
  /\ request.goal_pose # goal_pose
  /\ footprint_cost = 0
  /\ slow_down_
  /\ replanned

\* C19: a tick sends a request only when every pose of its window was
\* transformed into the base frame: a window pose whose transform failed
\* makes the tick fail.
C19_TransformFailureSurfaced ==
  request # NoRequest =>
    \A i \in 1 .. Len(transformed_plan) :
      transformed_plan[i].frame = BaseFrame

\* index of the first pose of the pre-tick plan closest to the robot
ClosestIndex ==
  CHOOSE i \in 1 .. Len(prePlan) :
    /\ \A j \in 1 .. Len(prePlan) :
         DistSq(robot_pose, prePlan[i]) <= DistSq(robot_pose, prePlan[j])
    /\ \A j \in 1 .. i - 1 :
         DistSq(robot_pose, prePlan[i]) < DistSq(robot_pose, prePlan[j])

\* C20: a tick that failed with the empty-window error or the collision
\* error leaves the stored plan trimmed to start at the closest pose and
\* closer_to_goal as computed from its robot pose; after the collision
\* error the regime is the one lines 221-232 compute from the carrot's
\* heading and the cost, as after a tick that succeeded.
C20_FailedTickKeepsEffects ==
  (tickPc = "done" /\ tickResult \in {"EmptyWindow", "Collision"})
    => /\ global_plan_ = SubSeq(prePlan, ClosestIndex, Len(prePlan))
       /\ closer_to_goal <=>
            DistSq(robot_pose, prePlan[Len(prePlan)])
              <= Sq(lookahead_dist_close_to_goal_)
       /\ tickResult = "Collision" =>
            /\ footprint_cost = 255
            /\ slow_down_ <=> CarrotHeadingAbs >= 1000

\* a tick failed with the collision error; it has erased a pose from the
\* stored plan, found the robot near the goal and set the regime to SLOWED
C20_Witness ==
  /\ tickPc = "done"
  /\ tickResult = "Collision"
  /\ ClosestIndex > 1
  /\ global_plan_ # prePlan
  /\ closer_to_goal
  /\ slow_down_

====
